---------------------------- MODULE Spec2Model ----------------------------
(***************************************************************************)
(* A model of state_loader_no_imports.py: the quoted-field line parser     *)
(* (parse_csv_line), the value inference (State._convert), the record      *)
(* constructor (State.__init__), the loader (load_states_no_imports) and   *)
(* the grouping and per-group sort of main().                              *)
(*                                                                         *)
(* A Python str is a sequence of one-character strings.  A value of a      *)
(* record field is a record [t, n, d, s]: t is the Python type ("none",    *)
(* "int", "float", "str"), n the integer (or the numerator of a float), d  *)
(* the power-of-ten denominator of a float and s the characters of a str.  *)
(***************************************************************************)
EXTENDS Integers, Sequences, FiniteSets, TLC

VARIABLES
    pc,         \* position of the operation under way
    line,       \* parse_csv_line: its argument
    i,          \* parse_csv_line: index of the next character (0-based)
    cur,        \* parse_csv_line: the buffer of the current field
    fields,     \* parse_csv_line: the fields pushed so far
    in_quotes,  \* parse_csv_line: inside a quoted field
    raw,        \* _convert: the argument s
    key_name,   \* _convert: the argument key_name
    val,        \* _convert: the value returned
    header,     \* State.__init__ / load_states_no_imports: the header
    row_arg,    \* State.__init__: the row as the caller gave it
    row,        \* State.__init__: the local row, normalized to the header's length
    attrs,      \* State.__init__: self.__dict__, <<name, value>> in insertion order
    k,          \* State.__init__: header positions processed so far
    lines,      \* load_states_no_imports: the physical lines of the file
    pos,        \* load_states_no_imports: lines read so far
    states,     \* load_states_no_imports / main: the list of State objects
    groups,     \* main: the dict groups, <<code, rows>> in insertion order
    g           \* main: loop index (over states, then over groups)

parseVars   == <<line, i, cur, fields, in_quotes>>
convertVars == <<raw, key_name, val>>
buildVars   == <<row_arg, row, attrs, k>>
loadVars    == <<lines, pos>>
indexVars   == <<groups, g>>
vars == <<pc, parseVars, convertVars, header, buildVars, loadVars, states, indexVars>>

-----------------------------------------------------------------------------
(* Bounds of the model. *)
MaxLineLen == 5     \* longest line given to parse_csv_line
MaxRawLen  == 4     \* longest raw value given to _convert
MaxHeader  == 2     \* longest header given to State
MaxRow     == 3     \* longest row given to State
MaxLines   == 2     \* most data lines of a file
MaxStates  == 3     \* most State objects in the list main() indexes

-----------------------------------------------------------------------------
(* Python str operations, on sequences of characters. *)
UpperChars == <<"A","B","C","D","E","F","G","H","I","J","K","L","M",
                "N","O","P","Q","R","S","T","U","V","W","X","Y","Z">>
LowerChars == <<"a","b","c","d","e","f","g","h","i","j","k","l","m",
                "n","o","p","q","r","s","t","u","v","w","x","y","z">>
DigitChars == <<"0","1","2","3","4","5","6","7","8","9">>
WhitespaceChars == {" ", "\t", "\n", "\r"}

Range(s) == {s[x] : x \in DOMAIN s}

LowerChar(c) ==
    IF \E x \in DOMAIN UpperChars : UpperChars[x] = c
    THEN LowerChars[CHOOSE x \in DOMAIN UpperChars : UpperChars[x] = c]
    ELSE c

UpperChar(c) ==
    IF \E x \in DOMAIN LowerChars : LowerChars[x] = c
    THEN UpperChars[CHOOSE x \in DOMAIN LowerChars : LowerChars[x] = c]
    ELSE c

\* str.lower() and str.upper()
Lower(s) == [x \in DOMAIN s |-> LowerChar(s[x])]
Upper(s) == [x \in DOMAIN s |-> UpperChar(s[x])]

RECURSIVE LStrip(_)
LStrip(s) ==
    IF s # <<>> /\ Head(s) \in WhitespaceChars THEN LStrip(Tail(s)) ELSE s

RECURSIVE RStripSet(_, _)
RStripSet(s, chars) ==
    IF s # <<>> /\ s[Len(s)] \in chars
    THEN RStripSet(SubSeq(s, 1, Len(s) - 1), chars) ELSE s

\* str.strip()
Strip(s) == RStripSet(LStrip(s), WhitespaceChars)

\* str.rstrip('\n\r')
RStripNewlines(s) == RStripSet(s, {"\n", "\r"})

\* str.replace(",", "")
RemoveCommas(s) == SelectSeq(s, LAMBDA c : c # ",")

IsDigitChar(c) == \E x \in DOMAIN DigitChars : DigitChars[x] = c
DigitVal(c) == (CHOOSE x \in DOMAIN DigitChars : DigitChars[x] = c) - 1

\* str.isdigit()
IsDigit(s) == s # <<>> /\ \A x \in DOMAIN s : IsDigitChar(s[x])

RECURSIVE DigitsValue(_)
DigitsValue(s) ==
    IF s = <<>> THEN 0
    ELSE 10 * DigitsValue(SubSeq(s, 1, Len(s) - 1)) + DigitVal(s[Len(s)])

-----------------------------------------------------------------------------
(* parse_csv_line *)

ScanStart == [fields |-> <<>>, cur |-> <<>>, in_quotes |-> FALSE, i |-> 0]

\* ScanChar without the lookahead for an escaped quote.
ScanCharNoEscape(ln, st) ==
    LET ch == ln[st.i + 1] IN
    IF st.in_quotes
    THEN IF ch = "\""
         THEN [st EXCEPT !.in_quotes = FALSE, !.i = @ + 1]
         ELSE [st EXCEPT !.cur = Append(@, ch), !.i = @ + 1]
    ELSE IF ch = ","
         THEN [st EXCEPT !.fields = Append(@, st.cur), !.cur = <<>>, !.i = @ + 1]
         ELSE IF ch = "\""
              THEN [st EXCEPT !.in_quotes = TRUE, !.i = @ + 1]
              ELSE [st EXCEPT !.cur = Append(@, ch), !.i = @ + 1]

\* One pass of the while loop, on the character line[i] (0-based i).
ScanChar(ln, st) ==
    LET ch == ln[st.i + 1] IN
    IF st.in_quotes
    THEN IF ch = "\""
         THEN IF st.i + 1 < Len(ln) /\ ln[st.i + 2] = "\""
              THEN [st EXCEPT !.cur = Append(@, "\""), !.i = @ + 2]
              ELSE [st EXCEPT !.in_quotes = FALSE, !.i = @ + 1]
         ELSE [st EXCEPT !.cur = Append(@, ch), !.i = @ + 1]
    ELSE IF ch = ","
         THEN [st EXCEPT !.fields = Append(@, st.cur), !.cur = <<>>, !.i = @ + 1]
         ELSE IF ch = "\""
              THEN [st EXCEPT !.in_quotes = TRUE, !.i = @ + 1]
              ELSE [st EXCEPT !.cur = Append(@, ch), !.i = @ + 1]

\* The statement after the loop: the buffer is pushed as the last field.
ScanEnd(st) == Append(st.fields, st.cur)

RECURSIVE ScanFrom(_, _)
ScanFrom(ln, st) ==
    IF st.i < Len(ln) THEN ScanFrom(ln, ScanChar(ln, st)) ELSE ScanEnd(st)

parse_csv_line(ln) == ScanFrom(ln, ScanStart)

-----------------------------------------------------------------------------
(* Values of record fields. *)
PyNone     == [t |-> "none",  n |-> 0, d |-> 1, s |-> <<>>]
PyInt(x)   == [t |-> "int",   n |-> x, d |-> 1, s |-> <<>>]
PyStr(x)   == [t |-> "str",   n |-> 0, d |-> 1, s |-> x]

RECURSIVE Reduce(_, _)
Reduce(x, y) == IF y > 1 /\ x % 10 = 0 THEN Reduce(x \div 10, y \div 10) ELSE <<x, y>>

\* The float x / y, y a power of ten, in lowest terms (1.50 and 1.5 are one float).
PyFloat(x, y) == [t |-> "float", n |-> Reduce(x, y)[1], d |-> Reduce(x, y)[2], s |-> <<>>]

-----------------------------------------------------------------------------
(* Names the program treats specially. *)
ExemptKeys ==
    { <<"f","i","p","s">>,
      <<"h","a","s","h">>,
      <<"t","o","t","a","l","t","e","s","t","r","e","s","u","l","t","s","s","o","u","r","c","e">>,
      <<"d","a","t","a","q","u","a","l","i","t","y","g","r","a","d","e">>,
      <<"g","r","a","d","e">>,
      <<"s","t","a","t","e">>,
      <<"l","a","s","t","u","p","d","a","t","e","e","t">>,
      <<"c","h","e","c","k","t","i","m","e","e","t">> }

ConvertAttr      == <<"_","c","o","n","v","e","r","t">>
LooksLikeIntAttr == <<"_","l","o","o","k","s","_","l","i","k","e","_","i","n","t">>
StateAttr        == <<"s","t","a","t","e">>
DateAttr         == <<"d","a","t","e">>

\* Attributes of a State object that setattr refuses to set to a field value.
ReadOnlyAttrs == { <<"_","_","c","l","a","s","s","_","_">>, <<"_","_","d","i","c","t","_","_">> }

-----------------------------------------------------------------------------
(* self.__dict__: the instance attributes, in insertion order. *)
HasAttr(self, name) == \E x \in DOMAIN self : self[x][1] = name

\* getattr(self, name, PyNone), for a name that is no member of the class
GetAttr(self, name) ==
    IF HasAttr(self, name)
    THEN self[CHOOSE x \in DOMAIN self : self[x][1] = name][2]
    ELSE PyNone

\* setattr(self, name, v): a dict keeps a key's first position when it is set again
SetAttr(self, name, v) ==
    IF HasAttr(self, name)
    THEN [x \in DOMAIN self |-> IF self[x][1] = name THEN <<name, v>> ELSE self[x]]
    ELSE Append(self, <<name, v>>)

-----------------------------------------------------------------------------
(* State._looks_like_int *)
\* _looks_like_int without the sign.
LooksLikeIntUnsigned(s) == IsDigit(s)

_looks_like_int(s) ==
    IF s = <<>> THEN FALSE
    ELSE IF s[1] \in {"-", "+"} THEN IsDigit(Tail(s))
    ELSE IsDigit(s)

\* int(s), for s that _looks_like_int accepts
ParseInt(s) ==
    IF s[1] = "-" THEN 0 - DigitsValue(Tail(s))
    ELSE IF s[1] = "+" THEN DigitsValue(Tail(s))
    ELSE DigitsValue(s)

\* float(s) succeeds: an optional sign, then digits around exactly one point, at
\* least one digit (the strings here hold no exponent, underscore, inf or nan).
FloatOK(s) ==
    LET b == IF s # <<>> /\ s[1] \in {"-", "+"} THEN Tail(s) ELSE s IN
    /\ Len(SelectSeq(b, LAMBDA c : c = ".")) = 1
    /\ \A x \in DOMAIN b : b[x] = "." \/ IsDigitChar(b[x])
    /\ \E x \in DOMAIN b : IsDigitChar(b[x])

RECURSIVE Pow10(_)
Pow10(e) == IF e = 0 THEN 1 ELSE 10 * Pow10(e - 1)

\* float(s), for s that FloatOK accepts
ParseFloat(s) ==
    LET b   == IF s[1] \in {"-", "+"} THEN Tail(s) ELSE s
        p   == CHOOSE x \in DOMAIN b : b[x] = "."
        m   == DigitsValue(SelectSeq(b, LAMBDA c : c # "."))
        sgn == IF s[1] = "-" THEN 0 - 1 ELSE 1
    IN PyFloat(sgn * m, Pow10(Len(b) - p))

-----------------------------------------------------------------------------
(* State._convert.  self is the object's __dict__: the method looks             *)
(* _looks_like_int up on self, where an instance attribute of that name shadows *)
(* the method, and calling a field value raises TypeError.                      *)
Return(v) == [raised |-> FALSE, value |-> v]
Raise     == [raised |-> TRUE,  value |-> PyNone]

\* _convert with the exempt rule tried before the empty rule.
ConvertExemptFirst(self, s, key) ==
    LET s2 == Strip(s) IN
    IF Lower(key) \in ExemptKeys THEN Return(PyStr(s2))
    ELSE IF s2 = <<>> THEN Return(PyNone)
    ELSE IF HasAttr(self, LooksLikeIntAttr) THEN Raise
    ELSE IF "," \in Range(s2) /\ _looks_like_int(RemoveCommas(s2))
         THEN Return(PyInt(ParseInt(RemoveCommas(s2))))
    ELSE IF _looks_like_int(s2) THEN Return(PyInt(ParseInt(s2)))
    ELSE IF "." \in Range(s2) /\ FloatOK(s2) THEN Return(ParseFloat(s2))
    ELSE Return(PyStr(s2))

_convert(self, s, key) ==
    LET s2        == Strip(s)
        lower_key == Lower(key)
        s3        == RemoveCommas(s2)
    IN
    IF s2 = <<>> THEN Return(PyNone)
    ELSE IF lower_key \in ExemptKeys THEN Return(PyStr(s2))
    ELSE IF HasAttr(self, LooksLikeIntAttr) THEN Raise
    ELSE IF "," \in Range(s2) /\ _looks_like_int(s3) THEN Return(PyInt(ParseInt(s3)))
    ELSE IF _looks_like_int(s2) THEN Return(PyInt(ParseInt(s2)))
    ELSE IF "." \in Range(s2) /\ FloatOK(s2) THEN Return(ParseFloat(s2))
    ELSE Return(PyStr(s2))

-----------------------------------------------------------------------------
(* State.__init__ *)

\* The row left as it came.
NormalizeNothing(hdr, rw) == rw

\* normalize row length
Normalize(hdr, rw) ==
    IF Len(rw) < Len(hdr)
    THEN rw \o [x \in 1..(Len(hdr) - Len(rw)) |-> <<>>]
    ELSE IF Len(rw) > Len(hdr) THEN SubSeq(rw, 1, Len(hdr))
    ELSE rw

\* One pass of the for loop: self._convert is looked up on self, called, and the
\* result set as the attribute k.strip().
InitStep(self, name, v) ==
    IF HasAttr(self, ConvertAttr) THEN [raised |-> TRUE, self |-> self]
    ELSE LET r == _convert(self, v, name) IN
         IF r.raised \/ Strip(name) \in ReadOnlyAttrs
         THEN [raised |-> TRUE, self |-> self]
         ELSE [raised |-> FALSE, self |-> SetAttr(self, Strip(name), r.value)]

\* zip(header, row) ends with the shorter of the two
ZipLen(hdr, rw) == IF Len(hdr) <= Len(rw) THEN Len(hdr) ELSE Len(rw)

RECURSIVE InitFrom(_, _, _, _)
InitFrom(self, hdr, rw, x) ==
    IF x > ZipLen(hdr, rw) THEN [raised |-> FALSE, self |-> self]
    ELSE LET r == InitStep(self, hdr[x], rw[x]) IN
         IF r.raised THEN r ELSE InitFrom(r.self, hdr, rw, x + 1)

\* State(header, row)
State(hdr, rw) == InitFrom(<<>>, hdr, Normalize(hdr, rw), 1)

-----------------------------------------------------------------------------
(* Inputs of the model. *)
SeqsUpTo(S, m) == UNION {[1..x -> S] : x \in 0..m}

ParseAlphabet == {"a", ",", "\""}

IdleParse   == line = <<>> /\ i = 0 /\ cur = <<>> /\ fields = <<>> /\ in_quotes = FALSE
IdleConvert == raw = <<>> /\ key_name = <<>> /\ val = PyNone
IdleBuild   == row_arg = <<>> /\ row = <<>> /\ attrs = <<>> /\ k = 0
IdleLoad    == lines = <<>> /\ pos = 0
IdleIndex   == groups = <<>> /\ g = 0

-----------------------------------------------------------------------------
(* parse_csv_line as a process: one step per pass of its while loop. *)
ParseInit ==
    /\ pc = "scan"
    /\ line \in SeqsUpTo(ParseAlphabet, MaxLineLen)
    /\ i = 0 /\ cur = <<>> /\ fields = <<>> /\ in_quotes = FALSE
    /\ IdleConvert /\ IdleBuild /\ IdleLoad /\ IdleIndex
    /\ header = <<>> /\ states = <<>>

ParseLoop ==
    /\ pc = "scan"
    /\ i < Len(line)
    /\ LET st == ScanChar(line, [fields |-> fields, cur |-> cur,
                                 in_quotes |-> in_quotes, i |-> i])
       IN /\ fields' = st.fields
          /\ cur' = st.cur
          /\ in_quotes' = st.in_quotes
          /\ i' = st.i
    /\ UNCHANGED <<pc, line, convertVars, header, buildVars, loadVars, states, indexVars>>

ParseReturn ==
    /\ pc = "scan"
    /\ ~(i < Len(line))
    /\ fields' = ScanEnd([fields |-> fields, cur |-> cur,
                          in_quotes |-> in_quotes, i |-> i])
    /\ pc' = "done"
    /\ UNCHANGED <<line, i, cur, in_quotes, convertVars, header, buildVars,
                   loadVars, states, indexVars>>

ParseNext == ParseLoop \/ ParseReturn

SpecParse == ParseInit /\ [][ParseNext]_vars

-----------------------------------------------------------------------------
(* The scanner of the specification, on the text still to read. *)
RECURSIVE SpecScan(_, _, _)
SpecScan(rest, quoted, buf) ==
    IF rest = <<>> THEN <<buf>>
    ELSE IF quoted
    THEN IF Head(rest) = "\""
         THEN IF Len(rest) >= 2 /\ rest[2] = "\""
              THEN SpecScan(Tail(Tail(rest)), TRUE, Append(buf, "\""))
              ELSE SpecScan(Tail(rest), FALSE, buf)
         ELSE SpecScan(Tail(rest), TRUE, Append(buf, Head(rest)))
    ELSE IF Head(rest) = "," THEN <<buf>> \o SpecScan(Tail(rest), FALSE, <<>>)
    ELSE IF Head(rest) = "\"" THEN SpecScan(Tail(rest), TRUE, buf)
    ELSE SpecScan(Tail(rest), FALSE, Append(buf, Head(rest)))

\* A comma is read outside quoted mode exactly when an even number of double
\* quotes precedes it.
CommasOutsideQuotes(ln) ==
    Cardinality({x \in DOMAIN ln :
        /\ ln[x] = ","
        /\ Cardinality({y \in 1..(x - 1) : ln[y] = "\""}) % 2 = 0})

\* C1: for every line, parse_csv_line ends without error (its index never leaves
\* the line) with exactly the fields of the specification's scanner, which are
\* 1 + (commas read outside quoted mode) many; the empty line gives [""].
C1_ParseIsSpecScanner ==
    /\ i \in 0..Len(line)
    /\ pc = "done" =>
        /\ fields = SpecScan(line, FALSE, <<>>)
        /\ Len(fields) = 1 + CommasOutsideQuotes(line)
        /\ (line = <<>> => fields = << <<>> >>)

\* A line that ends inside a quoted field holding a comma and an escaped quote.
C1_Witness ==
    /\ pc = "done"
    /\ in_quotes
    /\ \E x \in DOMAIN fields : {",", "\""} \subseteq Range(fields[x])

-----------------------------------------------------------------------------
(* State._convert as a process: one call on a fresh object. *)
RawAlphabet == {" ", "0", "1", ",", "-", "+", ".", "a"}

\* Field names: exempt in mixed case, exempt, not exempt for its leading blank
\* (_convert lower-cases the name it is given and does not trim it), not exempt.
KeyNames == { <<"F","i","p","s">>, <<"s","t","a","t","e">>, <<" ","f","i","p","s">>, <<"c","a","s","e","s">> }

ConvertInit ==
    /\ pc = "call"
    /\ raw \in SeqsUpTo(RawAlphabet, MaxRawLen)
    /\ key_name \in KeyNames
    /\ val = PyNone
    /\ IdleParse /\ IdleBuild /\ IdleLoad /\ IdleIndex
    /\ header = <<>> /\ states = <<>>

ConvertCall ==
    /\ pc = "call"
    /\ val' = _convert(<<>>, raw, key_name).value
    /\ pc' = "done"
    /\ UNCHANGED <<parseVars, raw, key_name, header, buildVars, loadVars, states, indexVars>>

ConvertNext == ConvertCall

SpecConvert == ConvertInit /\ [][ConvertNext]_vars

-----------------------------------------------------------------------------
(* The rules of the specification for the inferred value. *)

\* s without its leading and trailing whitespace
Trimmed(s) ==
    LET inner == {x \in DOMAIN s : s[x] \notin WhitespaceChars} IN
    IF inner = {} THEN <<>>
    ELSE SubSeq(s, CHOOSE x \in inner : \A y \in inner : x <= y,
                   CHOOSE x \in inner : \A y \in inner : x >= y)

\* the exempt set, as the specification lists it
SpecExempt ==
    { <<"f","i","p","s">>,
      <<"h","a","s","h">>,
      <<"t","o","t","a","l","t","e","s","t","r","e","s","u","l","t","s","s","o","u","r","c","e">>,
      <<"d","a","t","a","q","u","a","l","i","t","y","g","r","a","d","e">>,
      <<"g","r","a","d","e">>,
      <<"s","t","a","t","e">>,
      <<"l","a","s","t","u","p","d","a","t","e","e","t">>,
      <<"c","h","e","c","k","t","i","m","e","e","t">> }

\* "consists solely of digits, optionally signed"
OptionallySignedDigits(s) ==
    LET body == IF s # <<>> /\ s[1] \in {"+", "-"} THEN SubSeq(s, 2, Len(s)) ELSE s IN
    /\ Len(body) >= 1
    /\ \A x \in DOMAIN body : body[x] \in {"0","1","2","3","4","5","6","7","8","9"}

RECURSIVE DecimalOf(_)
DecimalOf(body) ==
    IF body = <<>> THEN 0
    ELSE DigitVal(Head(body)) * Pow10(Len(body) - 1) + DecimalOf(Tail(body))

\* the integer that optionally signed digits denote
IntegerOf(s) ==
    IF s[1] = "-" THEN 0 - DecimalOf(Tail(s))
    ELSE IF s[1] = "+" THEN DecimalOf(Tail(s))
    ELSE DecimalOf(s)

WithoutCommas(s) == SelectSeq(s, LAMBDA c : c # ",")

\* C2: a raw value that is empty after trimming gives None, also for an exempt
\* field; otherwise a field whose lower-cased name is exempt gives the trimmed
\* raw string itself, never an int or a float.
C2_EmptyThenExempt ==
    pc = "done" =>
        /\ Trimmed(raw) = <<>> => val = PyNone
        /\ (Trimmed(raw) # <<>> /\ Lower(key_name) \in SpecExempt) =>
               /\ val = PyStr(Trimmed(raw))
               /\ val.t \notin {"int", "float"}

\* " 01" for the field Fips stays the string "01".
C2_Witness ==
    /\ pc = "done"
    /\ key_name = <<"F","i","p","s">>
    /\ raw = <<" ", "0", "1">>
    /\ val = PyStr(<<"0", "1">>)

-----------------------------------------------------------------------------
(* State.__init__ as a process: the normalization, then one step per pass of *)
(* the for loop.                                                             *)

\* Header names: plain, the same name with a leading blank, exempt, and names of
\* members of the class State (looked up on the object like any attribute).
FieldNames ==
    { <<"a">>, <<" ","a">>, <<"F","i","p","s">>,
      <<"_","c","o","n","v","e","r","t">>, <<"_","l","o","o","k","s","_","l","i","k","e","_","i","n","t">>,
      <<"a","s","_","d","i","c","t">>, <<"_","_","c","l","a","s","s","_","_">> }

RowValues == { <<>>, <<"1">>, <<"x">> }

BuildInit ==
    /\ pc = "normalize"
    /\ header \in SeqsUpTo(FieldNames, MaxHeader)
    /\ row_arg \in SeqsUpTo(RowValues, MaxRow)
    /\ row = row_arg
    /\ attrs = <<>>
    /\ k = 0
    /\ IdleParse /\ IdleConvert /\ IdleLoad /\ IdleIndex
    /\ states = <<>>

InitNormalize ==
    /\ pc = "normalize"
    /\ row' = Normalize(header, row)
    /\ pc' = "loop"
    /\ UNCHANGED <<parseVars, convertVars, header, row_arg, attrs, k, loadVars,
                   states, indexVars>>

InitLoop ==
    /\ pc = "loop"
    /\ k < ZipLen(header, row)
    /\ LET r == InitStep(attrs, header[k + 1], row[k + 1]) IN
       IF r.raised
       THEN pc' = "raised" /\ UNCHANGED <<attrs, k>>
       ELSE pc' = pc /\ attrs' = r.self /\ k' = k + 1
    /\ UNCHANGED <<parseVars, convertVars, header, row_arg, row, loadVars,
                   states, indexVars>>

InitReturn ==
    /\ pc = "loop"
    /\ ~(k < ZipLen(header, row))
    /\ pc' = "done"
    /\ UNCHANGED <<parseVars, convertVars, header, buildVars, loadVars,
                   states, indexVars>>

BuildNext == InitNormalize \/ InitLoop \/ InitReturn

SpecBuild == BuildInit /\ [][BuildNext]_vars

-----------------------------------------------------------------------------
(* The record the specification describes. *)

\* the raw value paired with header position x: the row's, or "" beyond its end
RawAt(x) == IF x <= Len(row_arg) THEN row_arg[x] ELSE <<>>

\* the inferred value of the pair at header position x
ValueAt(x) == _convert(<<>>, RawAt(x), header[x]).value

AttrNames == {attrs[x][1] : x \in DOMAIN attrs}

\* C4 as stated: a built record has exactly N fields, its key set is the set of
\* trimmed header names, and the field of header position x holds the converted
\* row[x] (None beyond the row's end; row values past the header are dropped).
C4_ExactlyNFields ==
    pc = "done" =>
        /\ Len(attrs) = Len(header)
        /\ AttrNames = {Trimmed(header[x]) : x \in DOMAIN header}
        /\ \A x \in DOMAIN header : GetAttr(attrs, Trimmed(header[x])) = ValueAt(x)

\* C4 amended: after k header positions (all N of them once the record is
\* built) the record has one field per distinct trimmed name among them, hence
\* N fields exactly when the trimmed names differ pairwise; a field holds the
\* converted row value of the last header position bearing its name, None when
\* that position lies beyond the row's end; row values past the header are
\* never read.
C4_OneFieldPerDistinctName ==
    pc \in {"loop", "done", "raised"} =>
        LET seen == {Trimmed(header[x]) : x \in 1..k}
            last(name) == CHOOSE x \in 1..k :
                             /\ Trimmed(header[x]) = name
                             /\ \A y \in 1..k : Trimmed(header[y]) = name => y <= x
        IN /\ k <= Len(header)
           /\ pc = "done" => k = Len(header)
           /\ AttrNames = seen
           /\ Len(attrs) = Cardinality(seen)
           /\ (Len(attrs) = k) <=>
                  (\A x, y \in 1..k : Trimmed(header[x]) = Trimmed(header[y]) => x = y)
           /\ \A name \in seen :
                  /\ GetAttr(attrs, name) = ValueAt(last(name))
                  /\ last(name) > Len(row_arg) => GetAttr(attrs, name) = PyNone

\* The header ["a", " a"] with the row ["1", "x", "1"]: one field a = "x".
C4_Witness ==
    /\ pc = "done"
    /\ header = <<<<"a">>, <<" ","a">>>>
    /\ row_arg = << <<"1">>, <<"x">>, <<"1">> >>
    /\ attrs = << <<<<"a">>, PyStr(<<"x">>)>> >>

\* C5: State(header, row) never raises, whatever the field names are.
C5_BuildNeverRaises == pc # "raised"

-----------------------------------------------------------------------------
(* load_states_no_imports as a process.  The file is the sequence of its      *)
(* physical lines as text-mode reading hands them over: each ends with "\n"   *)
(* (universal newlines turn "\r\n" into "\n"), but for a last line that has   *)
(* no terminator.                                                             *)
HeaderTexts ==
    { <<>>,
      <<"s","t","a","t","e",",","d","a","t","e">>,
      <<" ","a"," ",",","F","i","p","s">>,
      <<"_","c","o","n","v","e","r","t",",","a">> }

RowTexts == { <<>>, <<" ">>, <<"w","a",",","1">>, <<"\"", "1", ",", "2", "\"", ",", "x", ",", "y">> }

Files ==
    {<<>>} \cup
    { <<h \o <<"\n">>>> \o [x \in DOMAIN body |-> body[x] \o <<"\n">>]
        : h \in HeaderTexts, body \in SeqsUpTo(RowTexts, MaxLines) } \cup
    { <<h \o <<"\n">>>> \o [x \in DOMAIN body |->
                               body[x] \o (IF x = Len(body) THEN <<>> ELSE <<"\n">>)]
        : h \in HeaderTexts, body \in SeqsUpTo(RowTexts, MaxLines) \ {<<>>} }

LoadInit ==
    /\ pc = "readheader"
    /\ lines \in Files
    /\ pos = 0
    /\ header = <<>>
    /\ states = <<>>
    /\ IdleParse /\ IdleConvert /\ IdleBuild /\ IdleIndex

\* first = fh.readline(); an empty file returns the empty list
LoadEmpty ==
    /\ pc = "readheader"
    /\ lines = <<>>
    /\ pc' = "done"
    /\ UNCHANGED <<parseVars, convertVars, header, buildVars, loadVars, states, indexVars>>

LoadHeader ==
    /\ pc = "readheader"
    /\ lines # <<>>
    /\ LET parsed == parse_csv_line(RStripNewlines(lines[1])) IN
       header' = [x \in DOMAIN parsed |-> Strip(parsed[x])]
    /\ pos' = 1
    /\ pc' = "rows"
    /\ UNCHANGED <<parseVars, convertVars, buildVars, lines, states, indexVars>>

\* for line in fh: a line that is empty once stripped is skipped
LoadBlank ==
    /\ pc = "rows"
    /\ pos < Len(lines)
    /\ RStripNewlines(lines[pos + 1]) = <<>>
    /\ pos' = pos + 1
    /\ UNCHANGED <<pc, parseVars, convertVars, header, buildVars, lines, states, indexVars>>

\* for line in fh: any other line is parsed and becomes a State
LoadRow ==
    /\ pc = "rows"
    /\ pos < Len(lines)
    /\ RStripNewlines(lines[pos + 1]) # <<>>
    /\ LET r == State(header, parse_csv_line(RStripNewlines(lines[pos + 1]))) IN
       IF r.raised
       THEN pc' = "raised" /\ UNCHANGED <<pos, states>>
       ELSE pc' = pc /\ pos' = pos + 1 /\ states' = Append(states, r.self)
    /\ UNCHANGED <<parseVars, convertVars, header, buildVars, lines, indexVars>>

LoadReturn ==
    /\ pc = "rows"
    /\ ~(pos < Len(lines))
    /\ pc' = "done"
    /\ UNCHANGED <<parseVars, convertVars, header, buildVars, loadVars, states, indexVars>>

LoadNext == LoadEmpty \/ LoadHeader \/ LoadBlank \/ LoadRow \/ LoadReturn

SpecLoad == LoadInit /\ [][LoadNext]_vars

-----------------------------------------------------------------------------
(* The store the specification describes. *)

\* a physical line without its trailing line terminators
Content(ln) ==
    LET keep == {x \in DOMAIN ln : \E y \in x..Len(ln) : ln[y] \notin {"\n", "\r"}} IN
    SubSeq(ln, 1, Cardinality(keep))

\* the header: the fields of the first line, each trimmed
SpecHeader ==
    LET parsed == SpecScan(Content(lines[1]), FALSE, <<>>) IN
    [x \in DOMAIN parsed |-> Trimmed(parsed[x])]

\* the lines after the header that are not empty, in file order
SpecRows == SelectSeq([x \in 1..(Len(lines) - 1) |-> Content(lines[x + 1])],
                      LAMBDA c : c # <<>>)

\* C6: load_states_no_imports returns, for every readable file, one record per
\* line after the header that is not empty once its terminators are stripped,
\* in file order, each built against the trimmed header of the first line.
C6_OneRecordPerNonBlankLine ==
    /\ pc # "raised"
    /\ (pc = "done" /\ lines # <<>>) =>
        /\ Len(states) = Len(SpecRows)
        /\ \A x \in DOMAIN states :
              /\ ~State(SpecHeader, SpecScan(SpecRows[x], FALSE, <<>>)).raised
              /\ states[x] = State(SpecHeader, SpecScan(SpecRows[x], FALSE, <<>>)).self
    /\ (pc = "done" /\ lines = <<>>) => states = <<>>

\* What is left of C6 when the load does return.
C6_WhenLoadReturns ==
    (pc = "done" /\ lines # <<>>) =>
        /\ Len(states) = Len(SpecRows)
        /\ \A x \in DOMAIN states :
              states[x] = State(SpecHeader, SpecScan(SpecRows[x], FALSE, <<>>)).self

-----------------------------------------------------------------------------
(* Comparison of sort keys: Python's < on int, float and str. *)

\* characters in code point order
CodeOrder == <<"\t", "\n", "\r", " ", "\"", "+", ",", "-", ".">> \o DigitChars
                 \o UpperChars \o <<"_">> \o LowerChars

CodePoint(c) == CHOOSE x \in DOMAIN CodeOrder : CodeOrder[x] = c

RECURSIVE StrLess(_, _)
StrLess(a, b) ==
    IF b = <<>> THEN FALSE
    ELSE IF a = <<>> THEN TRUE
    ELSE IF Head(a) = Head(b) THEN StrLess(Tail(a), Tail(b))
    ELSE CodePoint(Head(a)) < CodePoint(Head(b))

IsNumber(v) == v.t \in {"int", "float"}

\* a < b does not raise TypeError
Comparable(a, b) == (IsNumber(a) /\ IsNumber(b)) \/ (a.t = "str" /\ b.t = "str")

\* a < b, for comparable a and b
Less(a, b) == IF a.t = "str" THEN StrLess(a.s, b.s) ELSE a.n * b.d < b.n * a.d

\* A key that puts a missing date below every number.
SortKeyNoneLowest(self) ==
    LET date == GetAttr(self, DateAttr) IN
    IF date = PyNone THEN PyInt(0 - 1000000) ELSE date

\* key=lambda x: (getattr(x, 'date', None) or 0): None, 0 and 0.0 are falsy
SortKey(self) ==
    LET date == GetAttr(self, DateAttr) IN
    IF date = PyNone \/ (IsNumber(date) /\ date.n = 0) THEN PyInt(0) ELSE date

-----------------------------------------------------------------------------
(* list.sort(key=...) on a list shorter than 64: CPython finds the run the    *)
(* list starts with (reversing a strictly descending one) and inserts the     *)
(* rest by binary search.  An entry is <<key, item>>.  A comparison that      *)
(* raises ends the sort and leaves the list as it is at that moment.          *)
RECURSIVE RunFrom(_, _, _)
RunFrom(es, x, descending) ==
    IF x > Len(es) THEN [raised |-> FALSE, n |-> Len(es), descending |-> descending]
    ELSE IF ~Comparable(es[x][1], es[x - 1][1])
    THEN [raised |-> TRUE, n |-> 0, descending |-> descending]
    ELSE IF Less(es[x][1], es[x - 1][1]) = descending
    THEN RunFrom(es, x + 1, descending)
    ELSE [raised |-> FALSE, n |-> x - 1, descending |-> descending]

\* count_run, for a list of at least two entries
CountRun(es) ==
    IF ~Comparable(es[2][1], es[1][1])
    THEN [raised |-> TRUE, n |-> 0, descending |-> FALSE]
    ELSE RunFrom(es, 3, Less(es[2][1], es[1][1]))

\* A binary search that stops left of the entries equal to the pivot.
RECURSIVE BinarySearchLeft(_, _, _, _)
BinarySearchLeft(es, pivot, l, r) ==
    IF ~(l < r) THEN l
    ELSE LET mid == l + ((r - l) \div 2) IN
         IF ~Comparable(pivot[1], es[mid][1]) THEN 0
         ELSE IF ~Less(es[mid][1], pivot[1])
         THEN BinarySearchLeft(es, pivot, l, mid)
         ELSE BinarySearchLeft(es, pivot, mid + 1, r)

\* the binary search of binarysort for pivot among es[l..r-1]; 0 when it raises
RECURSIVE BinarySearch(_, _, _, _)
BinarySearch(es, pivot, l, r) ==
    IF ~(l < r) THEN l
    ELSE LET mid == l + ((r - l) \div 2) IN
         IF ~Comparable(pivot[1], es[mid][1]) THEN 0
         ELSE IF Less(pivot[1], es[mid][1])
         THEN BinarySearch(es, pivot, l, mid)
         ELSE BinarySearch(es, pivot, mid + 1, r)

\* binarysort: es[1..n] is sorted, the entries after it are inserted one by one
RECURSIVE BinarySort(_, _)
BinarySort(es, n) ==
    IF n >= Len(es) THEN [raised |-> FALSE, list |-> es]
    ELSE LET pivot == es[n + 1]
             at    == BinarySearch(es, pivot, 1, n + 1)
         IN IF at = 0 THEN [raised |-> TRUE, list |-> es]
            ELSE BinarySort(SubSeq(es, 1, at - 1) \o <<pivot>> \o SubSeq(es, at, n)
                                \o SubSeq(es, n + 2, Len(es)),
                            n + 1)

ReversePrefix(es, n) ==
    [x \in DOMAIN es |-> IF x <= n THEN es[n + 1 - x] ELSE es[x]]

ListSort(es) ==
    IF Len(es) < 2 THEN [raised |-> FALSE, list |-> es]
    ELSE LET run == CountRun(es) IN
         IF run.raised THEN [raised |-> TRUE, list |-> es]
         ELSE BinarySort(IF run.descending THEN ReversePrefix(es, run.n) ELSE es, run.n)

-----------------------------------------------------------------------------
(* main(): the index of the loaded states and the sort of each group.  A      *)
(* group holds the positions of its State objects in the list states.         *)

\* The code as it is, not upper-cased.
GroupKeyAsIs(code) == code.s

\* code.upper()
GroupKey(code) == Upper(code.s)

HasGroup(grps, code) == \E x \in DOMAIN grps : grps[x][1] = code

\* groups.setdefault(code, []).append(item)
GroupAppend(grps, code, item) ==
    IF HasGroup(grps, code)
    THEN [x \in DOMAIN grps |->
            IF grps[x][1] = code THEN <<code, Append(grps[x][2], item)>> ELSE grps[x]]
    ELSE Append(grps, <<code, <<item>>>>)

\* try: rows.sort(key=...) except Exception: pass
SortRows(sts, rows) ==
    LET sorted == ListSort([x \in DOMAIN rows |-> <<SortKey(sts[rows[x]]), rows[x]>>]).list
    IN [x \in DOMAIN rows |-> sorted[x][2]]

\* The files main() indexes: a header with the state and date columns, or with
\* one of them missing, and rows of raw state codes and raw dates.
IndexHeaders == { <<<<"s","t","a","t","e">>, <<"d","a","t","e">>>>, <<<<"s","t","a","t","e">>>>, <<<<"d","a","t","e">>>> }
RawStates    == { <<>>, <<"a">>, <<"A">>, <<"b">> }
RawDates     == { <<>>, <<"-", "1">>, <<"0">>, <<"1">>, <<"1", ".", "0">>, <<"x">> }

LoadedRows(hdr) ==
    { State(hdr, IF hdr[1] = <<"s","t","a","t","e">> THEN <<rs, rd>> ELSE <<rd, rs>>).self
        : rs \in RawStates, rd \in RawDates }

IndexInit ==
    /\ pc = "group"
    /\ header \in IndexHeaders
    /\ states \in SeqsUpTo(LoadedRows(header), MaxStates)
    /\ groups = <<>>
    /\ g = 0
    /\ IdleParse /\ IdleConvert /\ IdleBuild /\ IdleLoad

\* for s in states: ... groups.setdefault(code.upper(), []).append(s)
GroupLoop ==
    /\ pc = "group"
    /\ g < Len(states)
    /\ LET code == GetAttr(states[g + 1], StateAttr) IN
       IF code = PyNone
       THEN pc' = pc /\ g' = g + 1 /\ UNCHANGED groups
       ELSE IF code.t # "str"
       THEN pc' = "raised" /\ UNCHANGED <<groups, g>>
       ELSE pc' = pc /\ g' = g + 1 /\ groups' = GroupAppend(groups, GroupKey(code), g + 1)
    /\ UNCHANGED <<parseVars, convertVars, header, buildVars, loadVars, states>>

GroupEnd ==
    /\ pc = "group"
    /\ ~(g < Len(states))
    /\ pc' = "sort"
    /\ g' = 0
    /\ UNCHANGED <<parseVars, convertVars, header, buildVars, loadVars, states, groups>>

\* for code, rows in groups.items(): try: rows.sort(...) except Exception: pass
SortLoop ==
    /\ pc = "sort"
    /\ g < Len(groups)
    /\ groups' = [groups EXCEPT ![g + 1] = <<@[1], SortRows(states, @[2])>>]
    /\ g' = g + 1
    /\ UNCHANGED <<pc, parseVars, convertVars, header, buildVars, loadVars, states>>

SortEnd ==
    /\ pc = "sort"
    /\ ~(g < Len(groups))
    /\ pc' = "indexed"
    /\ UNCHANGED <<parseVars, convertVars, header, buildVars, loadVars, states, indexVars>>

IndexNext == GroupLoop \/ GroupEnd \/ SortLoop \/ SortEnd

SpecIndex == IndexInit /\ [][IndexNext]_vars

-----------------------------------------------------------------------------
(* The index the specification describes. *)
Bucket(x)   == groups[x][2]
KeyOf(item) == GetAttr(states[item], StateAttr)
DateOf(item) == GetAttr(states[item], DateAttr)

\* where a State object of the list occurs in the index
Places(item) ==
    {pl \in UNION {{<<x, y>> : y \in DOMAIN Bucket(x)} : x \in DOMAIN groups} :
        Bucket(pl[1])[pl[2]] = item}

\* a missing or None sort value counts as zero
NullAsZero(date) == IF date = PyNone THEN PyInt(0) ELSE date

\* the sort values of a bucket can all be compared with each other, None aside
ValuesComparable(x) ==
    \A y, z \in DOMAIN Bucket(x) :
        (DateOf(Bucket(x)[y]) # PyNone /\ DateOf(Bucket(x)[z]) # PyNone) =>
            Comparable(DateOf(Bucket(x)[y]), DateOf(Bucket(x)[z]))

\* the same, with None counted as zero
KeysComparable(x) ==
    \A y, z \in DOMAIN Bucket(x) :
        Comparable(NullAsZero(DateOf(Bucket(x)[y])), NullAsZero(DateOf(Bucket(x)[z])))

\* two equal sort values; two missing values are equal to each other
SameDate(a, b) ==
    \/ a = b
    \/ IsNumber(a) /\ IsNumber(b) /\ a.n * b.d = b.n * a.d

\* C7: once the index is built every State with a state code that is not None
\* is in exactly one bucket, the one of its upper-cased code, exactly once;
\* a State whose code is None or missing is in no bucket; a bucket holds
\* nothing but States of the list.
C7_BucketsPartitionStore ==
    pc \in {"sort", "indexed"} =>
        /\ \A x, y \in DOMAIN groups : groups[x][1] = groups[y][1] => x = y
        /\ \A x \in DOMAIN groups : \A y \in DOMAIN Bucket(x) :
               Bucket(x)[y] \in DOMAIN states
        /\ \A item \in DOMAIN states :
               IF KeyOf(item) = PyNone
               THEN Places(item) = {}
               ELSE /\ Cardinality(Places(item)) = 1
                    /\ \A pl \in Places(item) : groups[pl[1]][1] = Upper(KeyOf(item).s)

\* A bucket holding the codes "a" and "A", and a State left out of the index.
C7_Witness ==
    /\ pc = "indexed"
    /\ Len(groups) = 1
    /\ \E y, z \in DOMAIN Bucket(1) : KeyOf(Bucket(1)[y]).s # KeyOf(Bucket(1)[z]).s
    /\ \E item \in DOMAIN states : KeyOf(item) = PyNone

C9_ComparablePairsSorted ==
    /\ pc # "raised"
    /\ pc = "indexed" =>
        \A x \in DOMAIN groups : \A y, z \in DOMAIN Bucket(x) :
            LET a == NullAsZero(DateOf(Bucket(x)[y]))
                b == NullAsZero(DateOf(Bucket(x)[z]))
            IN (y < z /\ Comparable(a, b)) => ~Less(b, a)

=============================================================================
